---- MODULE Spec2Model ----
(***************************************************************************)
(* Coppo: the addon registry and command dispatcher (coppo-cli), the       *)
(* manifest loader (coppo-config) and the global logger (coppo-logger).    *)
(*                                                                         *)
(* Spec        one process invocation: main builds a CoppoCli, registers   *)
(*             addons and calls CoppoCli::run, modelled statement by       *)
(*             statement.                                                  *)
(* LoggerSpec  the logger crate driven by an arbitrary client of its       *)
(*             public API (init_logger and the four macros).               *)
(***************************************************************************)
EXTENDS Integers, Sequences, FiniteSets, TLC

VARIABLES
    addons,       \* CoppoCli.addons: registered addons, in registration order
    command,      \* CoppoCli.command: the assembled command surface
    pc,           \* position of the process in main / CoppoCli::run
    matches,      \* the ArgMatches get_matches returned
    parse,        \* what the argument parser decided: "none", "ok", "error", "help"
    manifest,     \* the file Coppo.toml in the working directory
    config,       \* the Config local of CoppoCli::run
    load_result,  \* what Config::from_file returned: "none", "Ok", "NotFound", "ParseError"
    LOGGER,       \* the OnceLock<Logger>: <<>> or <<[quiet |-> b]>>
    inits,        \* every get_or_init on LOGGER, in order: [by, quiet]
    calls,        \* the log calls made so far: [level, msg]
    out,          \* the lines written to stdout / stderr: [stream, level, msg]
    i,            \* index of the dispatch loop over addons
    executed,     \* the Addon::run invocations made, in order
    steps,        \* the steps of CoppoCli::run taken so far, in order
    exit_code,    \* exit status of the process: <<>> while it runs, <<n>> once it ended
    fs,           \* the files and directories the addons touch, and the processes they start
    runs          \* AddonSpec: the addon entry points called, each with its input and result

vars == <<addons, command, pc, matches, parse, manifest, config, load_result,
          LOGGER, inits, calls, out, i, executed, steps, exit_code, fs, runs>>

(***************************************************************************)
(* Bounds                                                                  *)
(***************************************************************************)
MaxAddons == 2
MaxArgs == 3
MaxInits == 3

NoSub == "<no subcommand>"
NoValue == "<none>"
NoKey == "<missing key>"

(***************************************************************************)
(* Addons: the three addon types of the repository, and MyAddon, the       *)
(* hand-written implementation of the trait in its documentation, which    *)
(* keeps the trait's defaults for description and args                     *)
(***************************************************************************)
AddonTypes == {"CoppoNewAddon", "CoppoBuildAddon", "CoppoRunAddon", "MyAddon"}

AddonName(a) ==
    CASE a = "CoppoNewAddon" -> "new"
      [] a = "CoppoBuildAddon" -> "build"
      [] a = "CoppoRunAddon" -> "run"
      [] a = "MyAddon" -> "my-addon"

\* version is env!("CARGO_PKG_VERSION") of the crate that implements the addon
AddonVersion(a) ==
    CASE a = "CoppoNewAddon" -> "CARGO_PKG_VERSION of coppo-new"
      [] a = "CoppoBuildAddon" -> "CARGO_PKG_VERSION of coppo-build"
      [] a = "CoppoRunAddon" -> "CARGO_PKG_VERSION of coppo-build"
      [] a = "MyAddon" -> "CARGO_PKG_VERSION of my-addon"

\* Option<&str>: <<>> is None, <<d>> is Some(d)
AddonDescription(a) ==
    CASE a = "CoppoNewAddon" -> <<"Create a new project">>
      [] a = "CoppoBuildAddon" -> <<"Compile the current project">>
      [] a = "CoppoRunAddon" -> <<"Compile and run the current project">>
      [] a = "MyAddon" -> <<>>

\* the declared extra arguments: the required positional path and --name of `new`
AddonArgs(a) ==
    IF a = "CoppoNewAddon" THEN {"path", "name"} ELSE {}

AddonRequired(a) ==
    IF a = "CoppoNewAddon" THEN {"path"} ELSE {}

(***************************************************************************)
(* coppo-config: the manifest and Config                                   *)
(***************************************************************************)
\* Coppo.toml as the loader sees it: absent, not TOML, or a TOML document
\* whose [project] table has or lacks the keys name and version.
Manifests ==
    { [exists |-> FALSE, toml |-> FALSE, name |-> NoKey, version |-> NoKey],
      [exists |-> TRUE, toml |-> FALSE, name |-> NoKey, version |-> NoKey],
      [exists |-> TRUE, toml |-> TRUE, name |-> "demo", version |-> NoKey],
      [exists |-> TRUE, toml |-> TRUE, name |-> "demo", version |-> "0.1.0"],
      [exists |-> TRUE, toml |-> TRUE, name |-> "", version |-> "0.1.0"],
      [exists |-> TRUE, toml |-> TRUE, name |-> "", version |-> ""] }

\* a default that is not all-empty: the version preset
ConfigDefaultVersioned == [name |-> "", version |-> "0.1.0"]

\* #[derive(Default)] on Config and Project: every String is empty
ConfigDefault == [name |-> "", version |-> ""]

\* "emptiness" of a configuration
ConfigIsEmpty(c) == c.name = "" /\ c.version = ""

\* Result<Config, E>: [ok |-> TRUE, val |-> config] or [ok |-> FALSE, err |-> kind]
Ok(v) == [ok |-> TRUE, val |-> v, err |-> NoValue]
Err(e) == [ok |-> FALSE, val |-> ConfigDefault, err |-> e]

\* a deserialiser that fills a missing key with the empty string
from_str_defaulting(m) ==
    IF m.toml
    THEN Ok([name |-> IF m.name = NoKey THEN "" ELSE m.name,
             version |-> IF m.version = NoKey THEN "" ELSE m.version])
    ELSE Err("ParseError")

\* toml::from_str into Config: name and version are required String fields
from_str(m) ==
    IF m.toml /\ m.name # NoKey /\ m.version # NoKey
    THEN Ok([name |-> m.name, version |-> m.version])
    ELSE Err("ParseError")

\* fs::read_to_string(CONFIG_FILE)? then from_str
from_file(m) ==
    IF ~m.exists THEN Err("NotFound") ELSE from_str(m)

\* Result::unwrap_or_default
unwrap_or_default(r) == IF r.ok THEN r.val ELSE ConfigDefault

(***************************************************************************)
(* coppo-logger                                                            *)
(***************************************************************************)
Levels == {"info", "warn", "error", "success"}

Line(stream, level, msg) == {[stream |-> stream, level |-> level, msg |-> msg]}

\* the four methods of Logger: what each writes
Logger_info(self, msg) == IF ~self.quiet THEN Line("stdout", "info", msg) ELSE {}
Logger_warn(self, msg) == IF ~self.quiet THEN Line("stderr", "warn", msg) ELSE {}
Logger_error(self, msg) == IF ~self.quiet THEN Line("stderr", "error", msg) ELSE {}
Logger_success(self, msg) == IF ~self.quiet THEN Line("stdout", "success", msg) ELSE {}

Logger_write(self, level, msg) ==
    CASE level = "info" -> Logger_info(self, msg)
      [] level = "warn" -> Logger_warn(self, msg)
      [] level = "error" -> Logger_error(self, msg)
      [] level = "success" -> Logger_success(self, msg)

\* a cell that is set on every call instead of once
get_or_init_overwrite(cell, quiet) == <<[quiet |-> quiet]>>

\* OnceLock::get_or_init(|| Logger::new(quiet)): the cell after the call
get_or_init(cell, quiet) == IF cell = <<>> THEN <<[quiet |-> quiet]>> ELSE cell

\* The logger's part of the state, as one record, so that a handler can make
\* several log calls in a row.
LogState == [LOGGER |-> LOGGER, inits |-> inits, calls |-> calls, out |-> out]

\* init_logger(quite)
init_logger(st, quite) ==
    [st EXCEPT !.LOGGER = get_or_init(st.LOGGER, quite),
               !.inits = Append(st.inits, [by |-> "init_logger", quiet |-> quite])]

\* info!, warn!, error!, success!: LOGGER.get_or_init(|| Logger::new(false)).<level>(msg)
log_macro(st, level, msg) ==
    LET cell == get_or_init(st.LOGGER, FALSE) IN
    [LOGGER |-> cell,
     inits |-> Append(st.inits, [by |-> "macro", quiet |-> FALSE]),
     calls |-> st.calls \cup {[level |-> level, msg |-> msg]},
     out |-> st.out \cup Logger_write(cell[1], level, msg)]

\* a handler's log calls, in order: logs is a sequence of [level, msg]
RECURSIVE log_all(_, _)
log_all(st, logs) ==
    IF logs = <<>> THEN st
    ELSE log_all(log_macro(st, Head(logs).level, Head(logs).msg), Tail(logs))

SetLogState(st) ==
    /\ LOGGER' = st.LOGGER
    /\ inits' = st.inits
    /\ calls' = st.calls
    /\ out' = st.out

(***************************************************************************)
(* The command surface and the argument parser                             *)
(***************************************************************************)
\* command!(): the top-level command before run extends it
CommandNew == [args |-> {}, about |-> "", subcommands |-> <<>>]

\* Option::unwrap_or("") of a description
about_of(d) == IF d = <<>> THEN "" ELSE d[1]

\* a descriptor whose about falls back to the addon's name, not to ""
SubcommandAboutName(a) ==
    [token |-> AddonName(a),
     version |-> AddonVersion(a),
     args |-> AddonArgs(a),
     required |-> AddonRequired(a),
     about |-> IF AddonDescription(a) = <<>> THEN AddonName(a) ELSE AddonDescription(a)[1]]

\* Command::new(addon.name()).version(..).args(..).about(..)
Subcommand(a) ==
    [token |-> AddonName(a),
     version |-> AddonVersion(a),
     args |-> AddonArgs(a),
     required |-> AddonRequired(a),
     about |-> about_of(AddonDescription(a))]

\* the command surface run assembles: the quiet flag and one subcommand per addon
Surface(cmd, registered) ==
    [args |-> cmd.args \cup {"quiet"},
     about |-> "Cpp package manager",
     subcommands |-> cmd.subcommands \o
                     [k \in 1..Len(registered) |-> Subcommand(registered[k])]]

\* the words a command line is made of
Tokens == {"-q", "-x", "--help", "--name=bar", "foo", "new", "build", "run", "my-addon"}
Flags == {"-q", "-x", "--help", "--name=bar"}
ArgSeqs == UNION {[1..n -> Tokens] : n \in 0..MaxArgs}

\* ArgMatches of a run without arguments
MatchesDefault ==
    [quiet |-> FALSE, subcommand |-> NoSub, path |-> NoValue, name |-> NoValue]

\* the first subcommand of the surface with that token (0: none)
FindSubcommand(cmd, t) ==
    LET hits == {k \in 1..Len(cmd.subcommands) : cmd.subcommands[k].token = t} IN
    IF hits = {} THEN 0 ELSE CHOOSE k \in hits : \A h \in hits : k <= h

ParseOk(m) == [kind |-> "ok", err |-> NoValue, matches |-> m]
ParseHelp == [kind |-> "help", err |-> NoValue, matches |-> MatchesDefault]
ParseErr(e) == [kind |-> "error", err |-> e, matches |-> MatchesDefault]

\* The parser, word by word. sc is the index of the selected subcommand in the
\* surface (0 while parsing top-level words). It stops at the first error or
\* help request; required arguments are checked once all words are consumed.
RECURSIVE ParseFrom(_, _, _, _)
ParseFrom(cmd, raw, sc, m) ==
    IF raw = <<>> THEN
        IF sc # 0 /\ "path" \in cmd.subcommands[sc].required /\ m.path = NoValue
        THEN ParseErr("MissingRequiredArgument")
        ELSE ParseOk(m)
    ELSE
        LET t == Head(raw)
            rest == Tail(raw)
        IN
        IF t = "--help" THEN ParseHelp
        ELSE IF sc = 0 THEN
            IF t = "-q" THEN
                IF "quiet" \notin cmd.args THEN ParseErr("UnknownArgument")
                ELSE IF m.quiet THEN ParseErr("ArgumentConflict")
                ELSE ParseFrom(cmd, rest, sc, [m EXCEPT !.quiet = TRUE])
            ELSE IF t \in Flags THEN ParseErr("UnknownArgument")
            ELSE IF FindSubcommand(cmd, t) = 0 THEN ParseErr("InvalidSubcommand")
            ELSE ParseFrom(cmd, rest, FindSubcommand(cmd, t), [m EXCEPT !.subcommand = t])
        ELSE
            LET declared == cmd.subcommands[sc].args IN
            IF t = "--name=bar" THEN
                IF "name" \notin declared THEN ParseErr("UnknownArgument")
                ELSE IF m.name # NoValue THEN ParseErr("ArgumentConflict")
                ELSE ParseFrom(cmd, rest, sc, [m EXCEPT !.name = "bar"])
            ELSE IF t \in Flags THEN ParseErr("UnknownArgument")
            ELSE IF "path" \in declared /\ m.path = NoValue
                 THEN ParseFrom(cmd, rest, sc, [m EXCEPT !.path = t])
                 ELSE ParseErr("UnknownArgument")

\* Command::get_matches on the process arguments
Parse(cmd, raw) == ParseFrom(cmd, raw, 0, MatchesDefault)

\* a parser whose failure is not terminal: the caller goes on with the defaults
get_matches_returns_always(r) == TRUE

\* get_matches returns to its caller only with a successful parse; on an error
\* or a help request it prints and ends the process itself
get_matches_returns(r) == r.kind = "ok"

\* a main that ends with a failure status after run returned
ExitStatusFailure(how) ==
    CASE how = "returned" -> 1
      [] how = "error" -> 2
      [] how = "help" -> 0

\* the exit status of the process, by the way it ends: main returning, the
\* parser's error exit, the parser's help exit
ExitStatus(how) ==
    CASE how = "returned" -> 0
      [] how = "error" -> 2
      [] how = "help" -> 0

(***************************************************************************)
(* The addons' entry points                                                *)
(***************************************************************************)
Outcome(res, err, cfg, logs) == [res |-> res, err |-> err, config |-> cfg, logs |-> logs]
Log(level, msg) == [level |-> level, msg |-> msg]

\* What an entry point leaves behind: its result, the configuration, its log
\* calls in order, and the file system.
Exec(res, err, cfg, logs, f) ==
    [res |-> res, err |-> err, config |-> cfg, logs |-> logs, fs |-> f]

\* The file system as the addons see it.
\*   dir, src, files, written   the directory <path> given to `new`: whether it
\*                              and <path>/src exist, the files in it, and the
\*                              content of <path>/Coppo.toml (<<>>: no such file)
\*   main_cpp, target, bin      src/main.cpp, target/ and target/<name> in the
\*                              working directory
\*   writes, procs              the fs::write calls that succeeded and the
\*                              programs the addon asked to start, in order
FsEmpty ==
    [dir |-> FALSE, src |-> FALSE, files |-> {}, written |-> <<>>,
     main_cpp |-> FALSE, target |-> FALSE, bin |-> FALSE,
     writes |-> <<>>, procs |-> <<>>]

\* a manifest somebody wrote earlier
OldManifest == [exists |-> TRUE, toml |-> TRUE, name |-> "old", version |-> "9.9.9"]

\* <path> before `new`: absent, an empty directory, a directory holding only a
\* manifest, a project
FsNew ==
    { FsEmpty,
      [FsEmpty EXCEPT !.dir = TRUE],
      [FsEmpty EXCEPT !.dir = TRUE, !.files = {"Coppo.toml"}, !.written = <<OldManifest>>],
      [FsEmpty EXCEPT !.dir = TRUE, !.src = TRUE,
                      !.files = {"src/main.cpp", "Coppo.toml"},
                      !.written = <<OldManifest>>] }

\* the working directory before `build` or `run`
FsCwd ==
    { [FsEmpty EXCEPT !.main_cpp = mc, !.target = t[1], !.bin = t[2]] :
        mc \in BOOLEAN, t \in {<<FALSE, FALSE>>, <<TRUE, FALSE>>, <<TRUE, TRUE>>} }

\* which call of `new` the operating system refuses, if any
NewEnvs == {"ok", "create_dir_all", "create_dir", "write_main", "to_string",
            "write_manifest", "write_gitignore", "canonicalize"}

\* what happens around the compiler: nothing bad, target/ cannot be created,
\* clang++ cannot be started, clang++ exits with a failure
BuildEnvs == {"ok", "create_dir", "compiler_missing", "compile_error"}

\* and whether the built binary can be started
RunEnvs == [build : BuildEnvs, spawn : {"ok", "fails"}]

\* the components of a path
Components(p) ==
    CASE p = "dir/foo" -> <<"dir", "foo">>
      [] OTHER -> <<p>>

\* a file name taken from the wrong end of the path
file_name_first(p) ==
    LET c == Components(p) IN
    IF c[1] = ".." THEN <<>> ELSE <<c[1]>>

\* Path::file_name: the last component, None (<<>>) when it is `..`
file_name(p) ==
    LET c == Components(p) IN
    IF c[Len(c)] = ".." THEN <<>> ELSE <<c[Len(c)]>>

\* toml::to_string(&config): the manifest text of a configuration
to_string(cfg) ==
    [exists |-> TRUE, toml |-> TRUE, name |-> cfg.name, version |-> cfg.version]

\* Config::exists(): whether the manifest file is there
Config_exists(m) == m.exists

\* Config::is_empty()
Config_is_empty(c) == ConfigIsEmpty(c)

\* a directory creation that accepts an existing directory
create_src_dir_all(f, e) ==
    IF e = "create_dir" THEN "io error" ELSE NoValue

\* fs::create_dir(path.join("src")): the error it returns, NoValue for none
create_src_dir(f, e) ==
    IF f.src THEN "File exists"
    ELSE IF e = "create_dir" THEN "io error"
    ELSE NoValue

\* fs::write(path.join(file), ..) that succeeds
write_file(f, file) ==
    [f EXCEPT !.files = @ \cup {file}, !.writes = Append(@, file)]

\* CoppoNewAddon's run, statement by statement; e names the call that fails
new_exec(cfg, m, f, e) ==
    LET derived == file_name(m.path) IN
    IF m.name = NoValue /\ derived = <<>>
    THEN Exec("Err", "Failed to get the name of the directory.", cfg, <<>>, f)
    ELSE
    LET name == IF m.name # NoValue THEN m.name ELSE derived[1]
        cfg2 == [cfg EXCEPT !.name = name, !.version = "0.1.0"]
        f1 == [f EXCEPT !.dir = TRUE]
        f2 == [f1 EXCEPT !.src = TRUE]
        f3 == write_file(f2, "src/main.cpp")
        f4 == [write_file(f3, "Coppo.toml") EXCEPT !.written = <<to_string(cfg2)>>]
        f5 == write_file(f4, ".gitignore")
    IN
    IF e = "create_dir_all" THEN Exec("Err", "io error", cfg2, <<>>, f)
    ELSE IF create_src_dir(f1, e) # NoValue
         THEN Exec("Err", create_src_dir(f1, e), cfg2, <<>>, f1)
    ELSE IF e = "write_main" THEN Exec("Err", "io error", cfg2, <<>>, f2)
    ELSE IF e \in {"to_string", "write_manifest"} THEN Exec("Err", "io error", cfg2, <<>>, f3)
    ELSE IF e = "write_gitignore" THEN Exec("Err", "io error", cfg2, <<>>, f4)
    ELSE IF e = "canonicalize" THEN Exec("Err", "io error", cfg2, <<>>, f5)
    ELSE Exec("Ok", NoValue, cfg2, <<Log("success", "Created a new project at")>>, f5)

\* checks that let a project without src/main.cpp through
build_checks_no_source(cfg, man, f) ==
    IF ~Config_exists(man) THEN "The project does not have a Coppo.toml file."
    ELSE IF Config_is_empty(cfg) THEN "The project name and version is needed"
    ELSE NoValue

\* the three checks of build(), in order: the error returned, NoValue for none
build_checks(cfg, man, f) ==
    IF ~Config_exists(man) THEN "The project does not have a Coppo.toml file."
    ELSE IF Config_is_empty(cfg) THEN "The project name and version is needed"
    ELSE IF ~f.main_cpp THEN "The src/main.cpp file does not exist."
    ELSE NoValue

\* build(), statement by statement; man is Coppo.toml in the working directory
build_exec(cfg, man, f, e) ==
    LET start == <<Log("info", "Building the project...")>>
        f1 == [f EXCEPT !.target = TRUE]
        f2 == [f1 EXCEPT !.procs = Append(@, "clang++")]
        f3 == [f2 EXCEPT !.bin = TRUE]
        \* clang++ cannot write its output to the directory target/
        failed == e = "compile_error" \/ cfg.name = ""
    IN
    IF build_checks(cfg, man, f) # NoValue
    THEN Exec("Err", build_checks(cfg, man, f), cfg, start, f)
    ELSE IF ~f.target /\ e = "create_dir" THEN Exec("Err", "io error", cfg, start, f)
    ELSE IF e = "compiler_missing" THEN Exec("Err", "io error", cfg, start, f2)
    ELSE IF failed
         THEN Exec("Err", "compiler stderr", cfg,
                   start \o <<Log("error", "The project failed to build.")>>, f2)
    ELSE Exec("Ok", NoValue, cfg,
              start \o <<Log("success", "The project has been built.")>>, f3)

\* Path::new(&bin_name).exists() for bin_name = target/<name>: with an empty
\* name the path is the directory target/ itself
bin_exists(cfg, f) == IF cfg.name = "" THEN f.target ELSE f.bin

\* a run addon that rebuilds every time
needs_build_always(cfg, f) == TRUE

\* the condition under which the run addon builds first
needs_build(cfg, f) == ~bin_exists(cfg, f)

\* CoppoRunAddon's run: build unless the binary is there, then start it and wait
run_exec(cfg, man, f, e) ==
    LET running == <<Log("info", "Running the project...")>>
        b == IF needs_build(cfg, f) THEN build_exec(cfg, man, f, e.build)
             ELSE Exec("Ok", NoValue, cfg, <<>>, f)
        spawned == [b.fs EXCEPT !.procs = Append(@, "target/" \o cfg.name)]
    IN
    IF b.res = "Err" THEN b
    \* a directory cannot be started
    ELSE IF e.spawn = "fails" \/ cfg.name = ""
         THEN Exec("Err", "io error", cfg, b.logs \o running, spawned)
    ELSE Exec("Ok", NoValue, cfg, b.logs \o running, spawned)

\* what the dispatcher sees of an entry point
Seen(x) == Outcome(x.res, x.err, x.config, x.logs)

\* CoppoNewAddon's run as the dispatcher sees it: its outcomes over the states
\* <path> can be in
run_new(cfg, m) ==
    { Seen(new_exec(cfg, m, f, e)) : f \in FsNew, e \in NewEnvs }

\* build() as the dispatcher sees it, over the states of the working directory
build(cfg, man) ==
    { Seen(build_exec(cfg, man, f, e)) : f \in FsCwd, e \in BuildEnvs }

\* CoppoBuildAddon's run
run_build(cfg, m, man) == build(cfg, man)

\* CoppoRunAddon's run as the dispatcher sees it
run_run(cfg, m, man) ==
    { Seen(run_exec(cfg, man, f, e)) : f \in FsCwd, e \in RunEnvs }

\* MyAddon's run: it prints a line of its own and returns Ok(())
run_my_addon(cfg, m) == { Outcome("Ok", NoValue, cfg, <<>>) }

\* Addon::run of a registered addon: the outcomes it can have
AddonRun(a, cfg, m, man) ==
    CASE a = "CoppoNewAddon" -> run_new(cfg, m)
      [] a = "CoppoBuildAddon" -> run_build(cfg, m, man)
      [] a = "CoppoRunAddon" -> run_run(cfg, m, man)
      [] a = "MyAddon" -> run_my_addon(cfg, m)

(***************************************************************************)
(* CoppoCli                                                                *)
(***************************************************************************)
\* the comparison left out: every addon is taken for the selected one
MatchesAny(name, a) == TRUE

\* `if name == addon.name()` of the dispatch loop
Matches(name, a) == name = AddonName(a)

\* `if let Some((name, matches)) = matches.subcommand()`
HasSubcommand(m) == m.subcommand # NoSub

\* the parsed flag ignored: the logger is always initialised as not quiet
QuietArgIgnored(m) == FALSE

\* the argument of init_logger: *matches.get_one::<bool>("quiet").unwrap_or(&false)
QuietArg(m) == m.quiet

\* `if let Err(e) = addon.run(..) { error!("{}", e) }`
ReportResult(st, o) ==
    IF o.res = "Err" THEN log_macro(st, "error", o.err) ELSE st

Init ==
    /\ addons = <<>>
    /\ command = CommandNew
    /\ pc = "main"
    /\ matches = MatchesDefault
    /\ parse = [kind |-> "none", err |-> NoValue]
    /\ manifest \in Manifests
    /\ config = ConfigDefault
    /\ load_result = "none"
    /\ LOGGER = <<>>
    /\ inits = <<>>
    /\ calls = {}
    /\ out = {}
    /\ i = 0
    /\ executed = <<>>
    /\ steps = <<>>
    /\ exit_code = <<>>
    /\ fs = FsEmpty
    /\ runs = <<>>

\* CoppoCli::add_addon
add_addon(a) ==
    /\ pc = "main"
    /\ Len(addons) < MaxAddons
    /\ addons' = Append(addons, a)
    /\ UNCHANGED <<fs, runs>>
    /\ UNCHANGED <<command, pc, matches, parse, manifest, config, load_result,
                   LOGGER, inits, calls, out, i, executed, steps, exit_code>>

\* CoppoCli::add_addons
add_addons(batch) ==
    /\ pc = "main"
    /\ Len(addons) + Len(batch) <= MaxAddons
    /\ addons' = addons \o batch
    /\ UNCHANGED <<fs, runs>>
    /\ UNCHANGED <<command, pc, matches, parse, manifest, config, load_result,
                   LOGGER, inits, calls, out, i, executed, steps, exit_code>>

\* run, first statement: the command surface
RunBuildSurface ==
    /\ pc = "main"
    /\ command' = Surface(command, addons)
    /\ pc' = "surface_built"
    /\ steps' = Append(steps, "surface")
    /\ UNCHANGED <<fs, runs>>
    /\ UNCHANGED <<addons, matches, parse, manifest, config, load_result,
                   LOGGER, inits, calls, out, i, executed, exit_code>>

\* run: self.command.clone().get_matches()
RunGetMatches ==
    /\ pc = "surface_built"
    /\ \E raw \in ArgSeqs :
        LET r == Parse(command, raw) IN
        /\ parse' = [kind |-> r.kind, err |-> r.err]
        /\ matches' = r.matches
        /\ IF get_matches_returns(r)
           THEN pc' = "parsed" /\ exit_code' = exit_code
           ELSE pc' = "exited" /\ exit_code' = <<ExitStatus(r.kind)>>
    /\ steps' = Append(steps, "parse")
    /\ UNCHANGED <<fs, runs>>
    /\ UNCHANGED <<addons, command, manifest, config, load_result,
                   LOGGER, inits, calls, out, i, executed>>

\* run: Config::from_file().unwrap_or_default()
RunLoadConfig ==
    /\ pc = "parsed"
    /\ LET r == from_file(manifest) IN
        /\ load_result' = IF r.ok THEN "Ok" ELSE r.err
        /\ config' = unwrap_or_default(r)
    /\ pc' = "config_loaded"
    /\ steps' = Append(steps, "config")
    /\ UNCHANGED <<fs, runs>>
    /\ UNCHANGED <<addons, command, matches, parse, manifest,
                   LOGGER, inits, calls, out, i, executed, exit_code>>

\* run: init_logger(quiet)
RunInitLogger ==
    /\ pc = "config_loaded"
    /\ SetLogState(init_logger(LogState, QuietArg(matches)))
    /\ pc' = "logger_init"
    /\ steps' = Append(steps, "logger")
    /\ UNCHANGED <<fs, runs>>
    /\ UNCHANGED <<addons, command, matches, parse, manifest, config, load_result,
                   i, executed, exit_code>>

\* run: the `if let` around the dispatch loop
RunDispatch ==
    /\ pc = "logger_init"
    /\ IF HasSubcommand(matches)
       THEN pc' = "loop" /\ i' = 1
       ELSE pc' = "returned" /\ i' = i
    /\ UNCHANGED <<fs, runs>>
    /\ UNCHANGED <<addons, command, matches, parse, manifest, config, load_result,
                   LOGGER, inits, calls, out, executed, steps, exit_code>>

\* the loop, an addon whose name is not the subcommand's
LoopSkip ==
    /\ pc = "loop"
    /\ i <= Len(addons)
    /\ ~Matches(matches.subcommand, addons[i])
    /\ i' = i + 1
    /\ UNCHANGED <<fs, runs>>
    /\ UNCHANGED <<addons, command, pc, matches, parse, manifest, config, load_result,
                   LOGGER, inits, calls, out, executed, steps, exit_code>>

\* the loop, an addon whose name is the subcommand's: run it, report its error
LoopRun ==
    /\ pc = "loop"
    /\ i <= Len(addons)
    /\ Matches(matches.subcommand, addons[i])
    /\ \E o \in AddonRun(addons[i], config, matches, manifest) :
        /\ executed' = Append(executed,
                              [idx |-> i, res |-> o.res, err |-> o.err, config |-> config])
        /\ config' = o.config
        /\ SetLogState(ReportResult(log_all(LogState, o.logs), o))
    /\ i' = i + 1
    /\ steps' = Append(steps, "execute")
    /\ UNCHANGED <<fs, runs>>
    /\ UNCHANGED <<addons, command, pc, matches, parse, manifest, load_result, exit_code>>

\* the loop is over: run returns
LoopEnd ==
    /\ pc = "loop"
    /\ i > Len(addons)
    /\ pc' = "returned"
    /\ UNCHANGED <<fs, runs>>
    /\ UNCHANGED <<addons, command, matches, parse, manifest, config, load_result,
                   LOGGER, inits, calls, out, i, executed, steps, exit_code>>

\* main returns after run
MainReturn ==
    /\ pc = "returned"
    /\ pc' = "exited"
    /\ exit_code' = <<ExitStatus("returned")>>
    /\ UNCHANGED <<fs, runs>>
    /\ UNCHANGED <<addons, command, matches, parse, manifest, config, load_result,
                   LOGGER, inits, calls, out, i, executed, steps>>

Batches == UNION {[1..n -> AddonTypes] : n \in 0..MaxAddons}

Next ==
    \/ \E a \in AddonTypes : add_addon(a)
    \/ \E batch \in Batches : add_addons(batch)
    \/ RunBuildSurface
    \/ RunGetMatches
    \/ RunLoadConfig
    \/ RunInitLogger
    \/ RunDispatch
    \/ LoopSkip
    \/ LoopRun
    \/ LoopEnd
    \/ MainReturn

Spec == Init /\ [][Next]_vars

(***************************************************************************)
(* The logger crate under an arbitrary client                              *)
(***************************************************************************)
ClientMsgs == {"This is a message", ""}

\* a call of init_logger
ClientInitLogger(quiet) ==
    /\ Len(inits) < MaxInits
    /\ SetLogState(init_logger(LogState, quiet))
    /\ UNCHANGED <<fs, runs>>
    /\ UNCHANGED <<addons, command, pc, matches, parse, manifest, config, load_result,
                   i, executed, steps, exit_code>>

\* a use of info!, warn!, error! or success!
ClientLog(level, msg) ==
    /\ Len(inits) < MaxInits
    /\ SetLogState(log_macro(LogState, level, msg))
    /\ UNCHANGED <<fs, runs>>
    /\ UNCHANGED <<addons, command, pc, matches, parse, manifest, config, load_result,
                   i, executed, steps, exit_code>>

LoggerNext ==
    \/ \E quiet \in BOOLEAN : ClientInitLogger(quiet)
    \/ \E level \in Levels, msg \in ClientMsgs : ClientLog(level, msg)

LoggerSpec == Init /\ [][LoggerNext]_vars

(***************************************************************************)
(* The addons' entry points on a file system: one addon is registered, the  *)
(* dispatcher has parsed its subcommand, loaded the configuration and set   *)
(* the logger, and calls Addon::run.  Spec above keeps only what the        *)
(* dispatcher sees of these calls.                                          *)
(***************************************************************************)
MaxRuns == 2

Paths == {"foo", "dir/foo", ".."}
Names == {NoValue, "bar"}

\* the state in which the dispatcher calls the entry point of addon a
Dispatched(a, q, m) ==
    /\ addons = <<a>>
    /\ command = Surface(CommandNew, <<a>>)
    /\ pc = "loop"
    /\ parse = [kind |-> "ok", err |-> NoValue]
    /\ manifest = m
    /\ config = unwrap_or_default(from_file(m))
    /\ load_result = IF from_file(m).ok THEN "Ok" ELSE from_file(m).err
    /\ LOGGER = <<[quiet |-> q]>>
    /\ inits = <<[by |-> "init_logger", quiet |-> q]>>
    /\ calls = {}
    /\ out = {}
    /\ i = 1
    /\ executed = <<>>
    /\ steps = <<"surface", "parse", "config", "logger">>
    /\ exit_code = <<>>
    /\ runs = <<>>

AddonInit ==
    \E q \in BOOLEAN, m \in Manifests :
        \/ /\ Dispatched("CoppoNewAddon", q, m)
           /\ \E p \in Paths, n \in Names :
                matches = [quiet |-> q, subcommand |-> "new", path |-> p, name |-> n]
           /\ fs \in FsNew
           \* the parent of an existing directory exists
           /\ matches.path = ".." => fs.dir
        \/ /\ \E a \in {"CoppoBuildAddon", "CoppoRunAddon"} :
                /\ Dispatched(a, q, m)
                /\ matches = [MatchesDefault EXCEPT !.quiet = q, !.subcommand = AddonName(a)]
           /\ fs \in FsCwd

\* one call of an entry point, recorded with the state it started from
Record(a, e, x) ==
    /\ config' = x.config
    /\ fs' = x.fs
    /\ SetLogState(log_all(LogState, x.logs))
    /\ runs' = Append(runs, [addon |-> a, env |-> e, matches |-> matches,
                             manifest |-> manifest, config |-> config, fs |-> fs,
                             res |-> x.res, err |-> x.err, logs |-> x.logs,
                             config_out |-> x.config, fs_out |-> x.fs])
    /\ UNCHANGED <<addons, command, pc, matches, parse, manifest, load_result,
                   i, executed, steps, exit_code>>

\* CoppoNewAddon::run(config, matches)
ExecNew ==
    /\ Len(runs) < MaxRuns
    /\ addons[1] = "CoppoNewAddon"
    /\ \E e \in NewEnvs : Record("CoppoNewAddon", e, new_exec(config, matches, fs, e))

\* CoppoBuildAddon::run(config, matches)
ExecBuild ==
    /\ Len(runs) < MaxRuns
    /\ addons[1] = "CoppoBuildAddon"
    /\ \E e \in BuildEnvs : Record("CoppoBuildAddon", e, build_exec(config, manifest, fs, e))

\* CoppoRunAddon::run(config, matches)
ExecRun ==
    /\ Len(runs) < MaxRuns
    /\ addons[1] = "CoppoRunAddon"
    /\ \E e \in RunEnvs : Record("CoppoRunAddon", e, run_exec(config, manifest, fs, e))

AddonNext == ExecNew \/ ExecBuild \/ ExecRun

AddonSpec == AddonInit /\ [][AddonNext]_vars

(***************************************************************************)
(* Properties                                                              *)
(***************************************************************************)
UniqueNames ==
    \A j, k \in 1..Len(addons) :
        j # k => AddonName(addons[j]) # AddonName(addons[k])

Registered(name) == {k \in 1..Len(addons) : AddonName(addons[k]) = name}

FirstRegistered(name) ==
    CHOOSE k \in Registered(name) : \A h \in Registered(name) : k <= h

RunOver == pc \in {"returned", "exited"}

\* C1: with pairwise distinct addon names, dispatching a registered name runs
\* the addon of that name exactly once and no other addon.
C1_UniqueNamesRunExactlyThatAddon ==
    (/\ UniqueNames
     /\ parse.kind = "ok"
     /\ HasSubcommand(matches)
     /\ Registered(matches.subcommand) # {})
    =>
    /\ Len(executed) <= 1
    /\ \A k \in 1..Len(executed) :
          AddonName(addons[executed[k].idx]) = matches.subcommand
    /\ RunOver => Len(executed) = 1

C1_Witness ==
    /\ pc = "exited"
    /\ Len(addons) = 2
    /\ UniqueNames
    /\ Len(executed) = 1
    /\ executed[1].idx = 2
    /\ AddonName(addons[2]) = matches.subcommand

\* C2: an addon's error is reported by the dispatcher, the process ends with a
\* non-zero exit status, and no further addon is run after the failing one.
C2_AddonErrorIsTerminal ==
    pc = "exited" =>
        \A k \in 1..Len(executed) :
            executed[k].res = "Err" =>
                /\ [level |-> "error", msg |-> executed[k].err] \in calls
                /\ exit_code # <<0>>
                /\ k = Len(executed)

\* C3: when a name registered twice is dispatched, only the first-registered
\* addon of that name is run: at most one addon runs per invocation.
C3_FirstRegisteredOnly ==
    /\ Len(executed) <= 1
    /\ \A k \in 1..Len(executed) :
          executed[k].idx = FirstRegistered(matches.subcommand)

\* C4: quiet mode suppresses info, warn and success lines, and an error-level
\* message is written whether quiet is false or true.
C4_ErrorAlwaysEmitted ==
    \A c \in calls :
        IF c.level = "error"
        THEN [stream |-> "stderr", level |-> "error", msg |-> c.msg] \in out
        ELSE LOGGER[1].quiet => \A l \in out : l.level # c.level

\* C5: the logger is initialised at most once: the first get_or_init (by
\* init_logger or by a macro, which offers quiet = false) decides the stored
\* quiet value, and every later init_logger call leaves it as it is.
C5_FirstInitWins ==
    /\ (LOGGER = <<>>) <=> (inits = <<>>)
    /\ inits # <<>> => LOGGER = <<[quiet |-> inits[1].quiet]>>

C5_Witness ==
    /\ Len(inits) >= 3
    /\ inits[1] = [by |-> "macro", quiet |-> FALSE]
    /\ inits[2] = [by |-> "init_logger", quiet |-> TRUE]
    /\ inits[3] = [by |-> "init_logger", quiet |-> FALSE]
    /\ LOGGER = <<[quiet |-> FALSE]>>

\* C6: a run without a subcommand calls no addon's run, whatever is registered,
\* and the process exits with status 0.
C6_NoSubcommandRunsNothing ==
    (parse.kind = "ok" /\ ~HasSubcommand(matches)) =>
        /\ executed = <<>>
        /\ pc # "loop"
        /\ pc = "exited" => exit_code = <<0>>

C6_Witness ==
    /\ pc = "exited"
    /\ parse.kind = "ok"
    /\ ~HasSubcommand(matches)
    /\ matches.quiet
    /\ Len(addons) = 2
    /\ executed = <<>>

\* C7: when a subcommand runs, the steps were: surface built from all
\* registered addons, arguments parsed, configuration loaded, logger
\* initialised from the parsed quiet flag, addon executed; the logger holds the
\* parsed quiet flag before any log call, so the flag governs every message.
C7_StepsInOrder ==
    /\ (executed # <<>> \/ (parse.kind = "ok" /\ HasSubcommand(matches) /\ RunOver)) =>
          /\ Len(steps) >= 5
          /\ SubSeq(steps, 1, 4) = <<"surface", "parse", "config", "logger">>
          /\ \A k \in 5..Len(steps) : steps[k] = "execute"
          /\ Len(command.subcommands) = Len(addons)
          /\ \A k \in 1..Len(addons) : command.subcommands[k].token = AddonName(addons[k])
    /\ calls # {} =>
          /\ inits[1] = [by |-> "init_logger", quiet |-> matches.quiet]
          /\ LOGGER = <<[quiet |-> matches.quiet]>>
    /\ matches.quiet => out = {}

C7_Witness ==
    /\ pc = "exited"
    /\ executed # <<>>
    /\ matches.quiet
    /\ calls # {}
    /\ Len(addons) = 2

\* C8: with the manifest absent the dispatcher goes on with the default
\* configuration, whose name and version are empty, and the selected addon is
\* run with it.
C8_AbsentManifestGivesDefault ==
    load_result = "NotFound" =>
        /\ pc = "config_loaded" => (config.name = "" /\ config.version = "")
        /\ executed # <<>> =>
              /\ executed[1].config.name = ""
              /\ executed[1].config.version = ""
              /\ ConfigIsEmpty(executed[1].config)
        /\ (HasSubcommand(matches) /\ RunOver) => executed # <<>>

C8_Witness ==
    /\ load_result = "NotFound"
    /\ pc = "exited"
    /\ Len(executed) = 1
    /\ executed[1].res = "Ok"
    /\ ConfigIsEmpty(executed[1].config)

\* C9: a manifest that is present but malformed is not replaced by the default
\* configuration: the parse failure is printed and the exit status is non-zero.
C9_MalformedManifestPropagates ==
    (load_result = "ParseError" /\ pc = "exited") =>
        /\ exit_code # <<0>>
        /\ \E l \in out : l.level = "error"
        /\ executed = <<>>

\* C10: a failure to parse the arguments ends the process with a non-zero
\* status: no configuration is loaded, the logger is not initialised, and no
\* addon is run.
C10_ParseFailureIsTerminal ==
    parse.kind = "error" =>
        /\ pc = "exited"
        /\ Len(exit_code) = 1
        /\ exit_code[1] # 0
        /\ load_result = "none"
        /\ LOGGER = <<>>
        /\ inits = <<>>
        /\ executed = <<>>

C10_Witness ==
    /\ parse.kind = "error"
    /\ parse.err = "MissingRequiredArgument"
    /\ pc = "exited"
    /\ Len(addons) = 2
    /\ command.subcommands # <<>>

\* C11 (as claimed): a configuration that loading returns successfully has a
\* non-empty project.name and a non-empty project.version, so it never
\* satisfies the emptiness predicate.
C11_LoadedNeverEmpty ==
    (load_result = "Ok" /\ pc = "config_loaded") =>
        /\ config.name # ""
        /\ config.version # ""
        /\ ~ConfigIsEmpty(config)

\* C11 (amended): loading succeeds only for a manifest that is TOML and has
\* both keys, and the loaded project.name and project.version are the
\* manifest's strings, empty or not; the loaded configuration satisfies the
\* emptiness predicate exactly when both strings of the manifest are empty.
C11_LoadedEqualsManifest ==
    load_result = "Ok" =>
        /\ manifest.exists /\ manifest.toml
        /\ manifest.name # NoKey /\ manifest.version # NoKey
        /\ pc = "config_loaded" =>
              /\ config.name = manifest.name
              /\ config.version = manifest.version
              /\ ConfigIsEmpty(config) <=> (manifest.name = "" /\ manifest.version = "")

C11_Witness ==
    /\ load_result = "Ok"
    /\ pc = "config_loaded"
    /\ manifest.name = "" /\ manifest.version = ""
    /\ ConfigIsEmpty(config)

\* C12: the surface is assembled after the registrations and before parsing;
\* it holds the global quiet flag, owned by no subcommand, and one subcommand
\* per registered addon, in registration order, with the addon's name,
\* version, declared arguments and description ("" when there is none).
C12_SurfaceMirrorsRegistry ==
    /\ pc = "main" => command = CommandNew
    /\ pc # "main" =>
          /\ steps[1] = "surface"
          /\ "quiet" \in command.args
          /\ Len(command.subcommands) = Len(addons)
          /\ \A k \in 1..Len(addons) :
                LET sc == command.subcommands[k]
                    a == addons[k]
                IN
                /\ sc.token = AddonName(a)
                /\ sc.version = AddonVersion(a)
                /\ sc.args = AddonArgs(a)
                /\ "quiet" \notin sc.args
                /\ sc.about = IF AddonDescription(a) = <<>> THEN "" ELSE AddonDescription(a)[1]
    /\ parse.kind # "none" => (Len(steps) >= 2 /\ steps[1] = "surface" /\ steps[2] = "parse")

C12_Witness ==
    /\ pc = "exited"
    /\ addons = <<"MyAddon", "CoppoNewAddon">>
    /\ command.subcommands[1].about = ""
    /\ command.subcommands[2].args = {"path", "name"}
    /\ Len(executed) = 1

(***************************************************************************)
(* Properties of the addons' entry points, over AddonSpec                   *)
(***************************************************************************)
RunsOf(a) == { k \in 1..Len(runs) : runs[k].addon = a }

\* the files written by call k, in order
WrittenBy(k) ==
    SubSeq(runs[k].fs_out.writes, Len(runs[k].fs.writes) + 1, Len(runs[k].fs_out.writes))

\* the final segment of a path
LastSegment(p) == Components(p)[Len(Components(p))]

\* C13: when `new` succeeds, the configuration's project.version is "0.1.0",
\* its project.name is the explicit name if one was given and the final
\* segment of the path otherwise, and this call has written, under the path, a
\* Coppo.toml that parses back to exactly that configuration.
C13_NewNamesAndWritesManifest ==
    \A k \in RunsOf("CoppoNewAddon") :
        LET r == runs[k] IN
        r.res = "Ok" =>
            /\ r.config_out.version = "0.1.0"
            /\ r.matches.name = NoValue =>
                  r.config_out.name = LastSegment(r.matches.path)
            /\ r.matches.name # NoValue => r.config_out.name = r.matches.name
            /\ \E w \in 1..Len(WrittenBy(k)) : WrittenBy(k)[w] = "Coppo.toml"
            /\ "Coppo.toml" \in r.fs_out.files
            /\ Len(r.fs_out.written) = 1
            /\ from_str(r.fs_out.written[1]) = Ok(r.config_out)

C13_Witness ==
    \E k \in RunsOf("CoppoNewAddon") :
        /\ runs[k].res = "Ok"
        /\ runs[k].matches.path = "dir/foo"
        /\ runs[k].matches.name = NoValue
        /\ runs[k].config_out.name = "foo"
        /\ runs[k].fs_out.written = <<to_string([name |-> "foo", version |-> "0.1.0"])>>

\* the programs call k asked to start, in order
StartedBy(k) ==
    SubSeq(runs[k].fs_out.procs, Len(runs[k].fs.procs) + 1, Len(runs[k].fs_out.procs))

CompilerInvokedBy(k) == \E j \in 1..Len(StartedBy(k)) : StartedBy(k)[j] = "clang++"
BinarySpawnedBy(k) == \E j \in 1..Len(StartedBy(k)) : StartedBy(k)[j] # "clang++"

\* one of build's three preconditions is missing at the start of a call
CheckFails(r) ==
    \/ ~r.manifest.exists
    \/ r.config.name = "" /\ r.config.version = ""
    \/ ~r.fs.main_cpp

\* C14: when Coppo.toml is absent, or project.name and project.version are
\* both empty, or src/main.cpp does not exist, the build addon returns an
\* error and has neither created target/ nor invoked the compiler; it invokes
\* the compiler only when none of the three holds, and it returns Ok only
\* after invoking a compiler that exited successfully.
C14_BuildChecksBeforeCompiling ==
    \A k \in RunsOf("CoppoBuildAddon") :
        LET r == runs[k] IN
        /\ CheckFails(r) =>
              /\ r.res = "Err"
              /\ r.fs_out = r.fs
              /\ ~CompilerInvokedBy(k)
        /\ CompilerInvokedBy(k) => ~CheckFails(r)
        /\ r.res = "Ok" =>
              /\ CompilerInvokedBy(k)
              /\ r.env \notin {"compiler_missing", "compile_error"}
              /\ r.fs_out.bin

C14_Witness ==
    \E k \in RunsOf("CoppoBuildAddon") :
        /\ runs[k].manifest.exists
        /\ runs[k].config = [name |-> "demo", version |-> "0.1.0"]
        /\ ~runs[k].fs.main_cpp
        /\ ~runs[k].fs.target
        /\ runs[k].env = "ok"
        /\ runs[k].res = "Err"
        /\ ~runs[k].fs_out.target

\* the path target/<name> exists at the start of a call
BinaryExisted(r) == IF r.config.name = "" THEN r.fs.target ELSE r.fs.bin

\* call k built the project, and the build succeeded
BuildAttemptedBy(k) ==
    \E j \in 1..Len(runs[k].logs) : runs[k].logs[j] = Log("info", "Building the project...")
BuildSucceededBy(k) ==
    \E j \in 1..Len(runs[k].logs) :
        runs[k].logs[j] = Log("success", "The project has been built.")

\* C15: the run addon asks to start the binary only if target/<name> existed
\* when it was called or its own build succeeded; when the binary is missing
\* and the build fails it returns the build's error and starts nothing but the
\* compiler; when the binary exists it does not build or check anything and
\* goes straight to starting the binary.
C15_RunSpawnsOnlyABuiltBinary ==
    \A k \in RunsOf("CoppoRunAddon") :
        LET r == runs[k] IN
        /\ BinarySpawnedBy(k) => (BinaryExisted(r) \/ BuildSucceededBy(k))
        /\ (~BinaryExisted(r) /\ ~BuildSucceededBy(k)) =>
              /\ r.res = "Err"
              /\ BuildAttemptedBy(k)
              /\ ~BinarySpawnedBy(k)
              /\ r.logs[Len(r.logs)] # Log("info", "Running the project...")
        /\ BinaryExisted(r) =>
              /\ ~BuildAttemptedBy(k)
              /\ ~CompilerInvokedBy(k)
              /\ r.logs = <<Log("info", "Running the project...")>>
              /\ Len(StartedBy(k)) = 1 /\ BinarySpawnedBy(k)
              /\ r.fs_out.target = r.fs.target

C15_Witness ==
    \E k \in RunsOf("CoppoRunAddon") :
        /\ runs[k].fs.bin
        /\ runs[k].config.name = "demo"
        /\ ~runs[k].fs.main_cpp
        /\ runs[k].res = "Ok"
        /\ StartedBy(k) = <<"target/demo">>

\* the name `new` gives the project, when it can determine one
NameGiven(r) ==
    IF r.matches.name # NoValue THEN <<r.matches.name>>
    ELSE IF LastSegment(r.matches.path) = ".." THEN <<>>
    ELSE <<LastSegment(r.matches.path)>>

\* C16: when <path>/src exists `new` returns an error and has written no
\* file; it logs success only after writing src/main.cpp, Coppo.toml and
\* .gitignore, in that order; and whenever it fails after determining the
\* project's name, as it does when <path>/src exists, the configuration
\* already carries that name and version "0.1.0".
C16_NewKeepsExistingProject ==
    \A k \in RunsOf("CoppoNewAddon") :
        LET r == runs[k] IN
        /\ r.fs.src =>
              /\ r.res = "Err"
              /\ WrittenBy(k) = <<>>
              /\ r.fs_out = r.fs
        /\ (\E j \in 1..Len(r.logs) : r.logs[j].level = "success") =>
              /\ r.res = "Ok"
              /\ WrittenBy(k) = <<"src/main.cpp", "Coppo.toml", ".gitignore">>
        /\ (r.res = "Err" /\ NameGiven(r) # <<>>) =>
              r.config_out = [name |-> NameGiven(r)[1], version |-> "0.1.0"]

C16_Witness ==
    \E k \in RunsOf("CoppoNewAddon") :
        /\ runs[k].fs.src
        /\ runs[k].env = "ok"
        /\ runs[k].res = "Err"
        /\ runs[k].err = "File exists"
        /\ runs[k].config = [name |-> "demo", version |-> "0.1.0"]
        /\ runs[k].matches.path = "foo"
        /\ runs[k].config_out = [name |-> "foo", version |-> "0.1.0"]
        /\ runs[k].fs_out.written = <<OldManifest>>

====
